---------------------------- MODULE Spec2Model ----------------------------
(***************************************************************************)
(* A model of the middle/back end of the "have" compiler (src/have/ast.go) *)
(* and of the transpile driver of its generator test                       *)
(* (src/generator_test.go).                                                *)
(*                                                                         *)
(* The module holds one specification per component:                       *)
(*   Spec          the generics engine (Generic*.Instantiate)              *)
(*   SpecPipeline  the negotiate-then-generate driver (inMemTranspile)     *)
(*   SpecTypes     the type algebra (Known, MapSubtypes, RootType)         *)
(*   SpecRootFair  SpecTypes with the fairness of a running loop           *)
(*   SpecLabels    CodeBlock.AddLabel                                      *)
(*   SpecDecls     TopLevelStmt.Decls                                      *)
(*   SpecTopLevel  TopLevelStmt.loadDeps, Deps and Decls on one statement  *)
(*   SpecZero      Type.ZeroValue                                          *)
(*   SpecWalkFair  the mapSubtype traversal with the fairness of a running *)
(*                 call                                                    *)
(*   SpecExpr      the rendering of expressions                            *)
(* Each specification moves its own variables and leaves the others at     *)
(* their idle values.                                                      *)
(***************************************************************************)
EXTENDS Naturals, Sequences, FiniteSets, TLC

VARIABLES
    \* ---- generics engine: tc.instantiations and the Instantiation records
    instantiations, \* tc.instantiations: instKey -> pointer of an Instantiation
    heap,           \* the Instantiation records, by pointer
    stack,          \* the Instantiate calls that are inside r.ParseAndCheck()
    returns,        \* what the Instantiate calls made so far returned
    checks,         \* instKey -> number of ParseAndCheck runs started for it
    \* ---- pipeline driver (inMemTranspile)
    plStmts,        \* result of parser.Parse(): per statement, does it negotiate
    plPc,           \* position of inMemTranspile
    plIdx,          \* index of the running range loop
    plTrace,        \* the NegotiateTypes / Generate calls made, in order
    plChunk,        \* the CodeChunk: the text appended so far
    plResult,       \* the (string, error) inMemTranspile returned
    \* ---- type algebra
    typeDecls,      \* the TypeDecl objects: name -> AliasedType
    tyRoot,         \* the Type value under examination
    walk,           \* the running mapSubtype traversal
    rootCall,       \* the running CustomType.RootType call
    zeroCall,       \* the running ZeroValue call
    \* ---- CodeBlock.AddLabel
    Labels,         \* cb.Labels: name -> *LabelStmt
    labelCalls,     \* the AddLabel calls made, in order, with what they returned
    \* ---- TopLevelStmt
    topStmt,        \* the TopLevelStmt's Stmt
    declsResult,    \* what Decls() returned for it
    unboundTypes,   \* s.unboundTypes: its keys
    unboundIdents,  \* s.unboundIdents: its keys
    deps,           \* s.deps
    depsResult,     \* what Deps() returned for it
    \* ---- expression rendering
    expr,           \* the expression handed to the generator
    rendered        \* the text generated for it

genericsVars == <<instantiations, heap, stack, returns, checks>>
pipelineVars == <<plStmts, plPc, plIdx, plTrace, plChunk, plResult>>
typeVars     == <<typeDecls, tyRoot, walk, rootCall, zeroCall>>
labelVars    == <<Labels, labelCalls>>
declVars     ==
    <<topStmt, declsResult, unboundTypes, unboundIdents, deps, depsResult>>
exprVars     == <<expr, rendered>>
vars ==
    <<genericsVars, pipelineVars, typeVars, labelVars, declVars, exprVars>>

Nil == "nil"

(***************************************************************************)
(* Small helpers on sequences and functions.                               *)
(***************************************************************************)
SeqsUpTo(S, n) == UNION {[1..k -> S] : k \in 0..n}

RECURSIVE JoinWith(_, _)
JoinWith(strs, sep) ==
    IF Len(strs) = 0 THEN ""
    ELSE IF Len(strs) = 1 THEN strs[1]
    ELSE strs[1] \o sep \o JoinWith(Tail(strs), sep)


(***************************************************************************)
(*                          GENERICS ENGINE                                *)
(***************************************************************************)

\* How many separately constructed copies of one argument list callers build.
MaxArgCopies == 2

\* The generic templates of the compilation unit: one GenericFunc, one
\* GenericStruct, each known by its identity (its Name()).
GenericFuncs == {"max"}
GenericStructs == {"Pair"}
Generics == GenericFuncs \cup GenericStructs

\* The argument lists callers pass: the String() of each concrete type.
ArgLists == {<<"int">>, <<"int", "string">>}

\* A params slice: the types it holds and which copy of the slice it is.
ParamLists ==
    [ptr : 1..MaxArgCopies, types : ArgLists]

\* gf.Name() / gs.Name(): the template's base name.
GenericName(g) == g

\* NewInstKey(generic, params): the template's identity and the textual
\* encoding of the argument types; the identity of the slice is not in it.
NewInstKey(g, params) ==
    [generic |-> g, params |-> JoinWith(params.types, ", ")]

InstKeys == {NewInstKey(g, p) : g \in Generics, p \in ParamLists}

\* Instantiation.getGoName(): base name and argument signature.
getGoName(r) ==
    GenericName(r.Generic) \o "_" \o JoinWith(r.Params.types, "_")

\* i, ok := tc.instantiations[instKey]
CacheLookupMiss(insts, key) == FALSE
CacheLookup(insts, key) == key \in DOMAIN insts

\* tc.instantiations[instKey] = r
CacheInsertSkipped(insts, key, r) == insts
CacheInsert(insts, key, r) ==
    [k \in DOMAIN insts \cup {key} |-> IF k = key THEN r ELSE insts[k]]

\* r := &Instantiation{...}: a record no earlier call allocated.
NewInstantiation(key) == <<key, checks[key] + 1>>

\* The name an Instantiate call returns beside a declaration: the struct
\* template returns the literal "sliwka", the function template getGoName().
GoNameReturned(g, r) ==
    IF g \in GenericStructs THEN "sliwka" ELSE getGoName(r)

\* The nil Object: what the Object field of a fresh Instantiation holds.
NilObject == <<>>

\* One return of Instantiate, as the caller sees it.
Returned(key, object, name, errs) ==
    [key |-> key, object |-> object, name |-> name, errs |-> errs]

\* The running calls, with the one(s) for key marked as asked for again.
MarkReentered(key) ==
    [i \in 1..Len(stack) |->
        IF stack[i].key = key THEN [stack[i] EXCEPT !.reentered = TRUE]
        ELSE stack[i]]

\* Instantiate up to and including the call of r.ParseAndCheck(): a cached
\* key returns at once, any other key gets a record, is inserted in the
\* cache and enters ParseAndCheck.  A call is made at top level or from the
\* ParseAndCheck that is running innermost.  A frame's reentered field is
\* history: it tells that its key was asked for again while it ran.
InstantiateEnter(g, params) ==
    LET instKey == NewInstKey(g, params) IN
    IF CacheLookup(instantiations, instKey)
    THEN LET i == heap[instantiations[instKey]] IN
         /\ returns' = returns \cup
                {Returned(instKey, i.Object, GoNameReturned(g, i), FALSE)}
         /\ stack' = MarkReentered(instKey)
         /\ UNCHANGED <<instantiations, heap, checks>>
    ELSE LET r == NewInstantiation(instKey) IN
         /\ heap' = [p \in DOMAIN heap \cup {r} |->
                        IF p = r
                        THEN [Generic |-> g, Params |-> params,
                              Object |-> NilObject, checked |-> "running"]
                        ELSE heap[p]]
         /\ instantiations' = CacheInsert(instantiations, instKey, r)
         /\ checks' = [checks EXCEPT ![instKey] = @ + 1]
         /\ stack' = Append(stack, [key |-> instKey, rec |-> r,
                                    nestedErrs |-> FALSE,
                                    reentered |-> FALSE])
         /\ UNCHANGED returns

\* Instantiation.ParseAndCheck() ends and Instantiate returns: with errors
\* (of the body, or of an instantiation the body asked for) it returns
\* (nil, "", errs); without, the record's Object is bound and returned.
InstantiateLeave(bodyErrs) ==
    LET top == stack[Len(stack)]
        r == top.rec
        errs == bodyErrs \/ top.nestedErrs
        object == IF errs THEN NilObject ELSE <<"decl", r>>
        rest == SubSeq(stack, 1, Len(stack) - 1)
    IN
    /\ heap' = [heap EXCEPT ![r].Object = object,
                            ![r].checked = IF errs THEN "errors" ELSE "ok"]
    /\ returns' = returns \cup
           {IF errs
            THEN Returned(top.key, NilObject, "", TRUE)
            ELSE Returned(top.key, object,
                          GoNameReturned(heap[r].Generic, heap'[r]),
                          FALSE)}
    /\ stack' = IF rest = <<>> THEN rest
                ELSE [rest EXCEPT ![Len(rest)].nestedErrs = @ \/ errs]
    /\ UNCHANGED <<instantiations, checks>>

GenericFunc_Instantiate ==
    /\ \E gf \in GenericFuncs, params \in ParamLists :
           InstantiateEnter(gf, params)
    /\ UNCHANGED <<pipelineVars, typeVars, labelVars, declVars, exprVars>>

GenericStruct_Instantiate ==
    /\ \E gs \in GenericStructs, params \in ParamLists :
           InstantiateEnter(gs, params)
    /\ UNCHANGED <<pipelineVars, typeVars, labelVars, declVars, exprVars>>

GenericFunc_InstantiateReturn ==
    /\ stack # <<>>
    /\ stack[Len(stack)].key.generic \in GenericFuncs
    /\ \E bodyErrs \in BOOLEAN : InstantiateLeave(bodyErrs)
    /\ UNCHANGED <<pipelineVars, typeVars, labelVars, declVars, exprVars>>

GenericStruct_InstantiateReturn ==
    /\ stack # <<>>
    /\ stack[Len(stack)].key.generic \in GenericStructs
    /\ \E bodyErrs \in BOOLEAN : InstantiateLeave(bodyErrs)
    /\ UNCHANGED <<pipelineVars, typeVars, labelVars, declVars, exprVars>>

GenericsInit ==
    /\ instantiations = <<>>
    /\ heap = <<>>
    /\ stack = <<>>
    /\ returns = {}
    /\ checks = [k \in InstKeys |-> 0]

GenericsIdle ==
    /\ instantiations = <<>>
    /\ heap = <<>>
    /\ stack = <<>>
    /\ returns = {}
    /\ checks = <<>>

PipelineIdle ==
    /\ plStmts = <<>>
    /\ plPc = "idle"
    /\ plIdx = 0
    /\ plTrace = <<>>
    /\ plChunk = <<>>
    /\ plResult = [out |-> <<>>, err |-> FALSE]

TypesIdle ==
    /\ typeDecls = <<>>
    /\ tyRoot = Nil
    /\ walk = Nil
    /\ rootCall = Nil
    /\ zeroCall = Nil

LabelsIdle ==
    /\ Labels = <<>>
    /\ labelCalls = <<>>

\* A nil slice and a slice holding elems.
NilSlice == [isNil |-> TRUE, elems |-> <<>>]
Slice(elems) == [isNil |-> FALSE, elems |-> elems]

\* A TopLevelStmt whose dependency fields were never filled.
DepsIdle ==
    /\ unboundTypes = {}
    /\ unboundIdents = {}
    /\ deps = NilSlice
    /\ depsResult = [called |-> FALSE, panic |-> FALSE, result |-> NilSlice]

DeclsIdle ==
    /\ topStmt = Nil
    /\ declsResult = [called |-> FALSE, panic |-> FALSE, result |-> <<>>]
    /\ DepsIdle

ExprIdle ==
    /\ expr = Nil
    /\ rendered = [done |-> FALSE, pieces |-> <<>>]

(***************************************************************************)
(* The generics engine's specification.                                    *)
(***************************************************************************)
Init ==
    GenericsInit /\ PipelineIdle /\ TypesIdle /\ LabelsIdle /\ DeclsIdle
    /\ ExprIdle

Next ==
    \/ GenericFunc_Instantiate
    \/ GenericStruct_Instantiate
    \/ GenericFunc_InstantiateReturn
    \/ GenericStruct_InstantiateReturn

Spec == Init /\ [][Next]_vars

(***************************************************************************)
(* Claims about the generics engine, checked under Spec.                   *)
(***************************************************************************)

\* C1: any two Instantiate calls for the same (template, arguments) key,
\* whichever copies of the argument list they were given, returned the same
\* declaration Object and the same generated name, and ParseAndCheck was
\* started at most once for each key.
C1_SameDeclarationAndName ==
    /\ \A a, b \in returns :
           a.key = b.key => a.object = b.object /\ a.name = b.name
    /\ \A k \in InstKeys : checks[k] <= 1

\* C2: the cache entry of a key is in place for as long as its ParseAndCheck
\* runs, so a request for a key that is being checked never starts a second
\* check of it: the running checks are for distinct keys, no key is checked
\* twice, and the nesting is no deeper than the number of keys.
C2_InsertBeforeCheck ==
    /\ \A i \in 1..Len(stack) :
           /\ stack[i].key \in DOMAIN instantiations
           /\ instantiations[stack[i].key] = stack[i].rec
    /\ \A i, j \in 1..Len(stack) : stack[i].key = stack[j].key => i = j
    /\ \A k \in InstKeys : checks[k] <= 1
    /\ Len(stack) <= Cardinality(InstKeys)

\* C2's case: the body of a template asked for the very instantiation that is
\* being checked, and that nested call has returned.
C2_SelfReferenceReturned ==
    \E i \in 1..Len(stack) :
        /\ stack[i].reentered
        /\ \E a \in returns : a.key = stack[i].key

\* C3: every Instantiate call for a key whose ParseAndCheck produced errors
\* returned errors and no declaration, the calls after the failed one too.
C3_FailureIsNeverSwallowed ==
    \A a \in returns :
        (/\ a.key \in DOMAIN instantiations
         /\ heap[instantiations[a.key]].checked = "errors")
        => a.errs /\ a.object = NilObject

\* C4: the names successful Instantiate calls return tell the instantiations
\* apart: two calls that returned the declarations of different keys never
\* returned the same name (so no name is a placeholder shared by all
\* instantiations of a struct template).
C4_NamesAreNotPlaceholders ==
    \A a, b \in returns :
        (/\ ~a.errs /\ a.object # NilObject
         /\ ~b.errs /\ b.object # NilObject
         /\ a.key # b.key) => a.name # b.name

\* C5: no step removes a key from tc.instantiations or makes a key map to
\* another Instantiation record, whatever the outcome of its ParseAndCheck.
C5_CacheOnlyGrows ==
    [][\A k \in DOMAIN instantiations :
           /\ k \in DOMAIN instantiations'
           /\ instantiations'[k] = instantiations[k]]_vars

\* C5's case: an instantiation whose ParseAndCheck failed is still cached
\* after a later Instantiate call for the same key has returned.
C5_FailedEntryKept ==
    \E k \in DOMAIN instantiations :
        /\ heap[instantiations[k]].checked = "errors"
        /\ \E a \in returns : a.key = k /\ ~a.errs
        /\ Cardinality(DOMAIN instantiations) >= 2

(***************************************************************************)
(*                 NEGOTIATION / GENERATION PIPELINE                       *)
(* inMemTranspile of src/generator_test.go: parse, negotiate every         *)
(* statement in order, then generate every statement in order.             *)
(***************************************************************************)

\* Longest list of top-level statements the parser hands over.
MaxStmts == 4

\* A parsed top-level statement: whether its NegotiateTypes will succeed.
ParsedStmts == [negotiates : BOOLEAN]

\* if err := typedStmt.NegotiateTypes(); err != nil
NegotiateErrIgnored(stmt) == FALSE
NegotiateErr(stmt) == ~stmt.negotiates

\* stmt.(Generable).Generate(cc): the rendering of statement i, appended.
Generate(cc, i) == Append(cc, <<"text", i>>)

\* cc.ReadAll(): the whole accumulated text.
ReadAll(cc) == cc

\* parser.Parse() and the check of its error.
inMemTranspile_Parse ==
    /\ plPc = "parse"
    /\ \/ /\ plResult' = [out |-> <<>>, err |-> TRUE]
          /\ plPc' = "done"
          /\ UNCHANGED <<plStmts, plIdx>>
       \/ \E result \in SeqsUpTo(ParsedStmts, MaxStmts) :
              /\ plStmts' = result
              /\ plPc' = "negotiate"
              /\ plIdx' = 1
              /\ UNCHANGED plResult
    /\ UNCHANGED <<plTrace, plChunk>>
    /\ UNCHANGED <<genericsVars, typeVars, labelVars, declVars, exprVars>>

\* One round of the first range loop, or its end (cc := &CodeChunk{}).
inMemTranspile_Negotiate ==
    /\ plPc = "negotiate"
    /\ IF plIdx > Len(plStmts)
       THEN /\ plPc' = "generate"
            /\ plIdx' = 1
            /\ plChunk' = <<>>
            /\ UNCHANGED <<plTrace, plResult>>
       ELSE /\ plTrace' = Append(plTrace, <<"NegotiateTypes", plIdx>>)
            /\ IF NegotiateErr(plStmts[plIdx])
               THEN /\ plResult' = [out |-> <<>>, err |-> TRUE]
                    /\ plPc' = "done"
                    /\ UNCHANGED plIdx
               ELSE /\ plIdx' = plIdx + 1
                    /\ UNCHANGED <<plPc, plResult>>
            /\ UNCHANGED plChunk
    /\ UNCHANGED plStmts
    /\ UNCHANGED <<genericsVars, typeVars, labelVars, declVars, exprVars>>

\* One round of the second range loop, or its end (return cc.ReadAll(), nil).
inMemTranspile_Generate ==
    /\ plPc = "generate"
    /\ IF plIdx > Len(plStmts)
       THEN /\ plResult' = [out |-> ReadAll(plChunk), err |-> FALSE]
            /\ plPc' = "done"
            /\ UNCHANGED <<plTrace, plChunk, plIdx>>
       ELSE /\ plTrace' = Append(plTrace, <<"Generate", plIdx>>)
            /\ plChunk' = Generate(plChunk, plIdx)
            /\ plIdx' = plIdx + 1
            /\ UNCHANGED <<plPc, plResult>>
    /\ UNCHANGED plStmts
    /\ UNCHANGED <<genericsVars, typeVars, labelVars, declVars, exprVars>>

PipelineInit ==
    /\ plStmts = <<>>
    /\ plPc = "parse"
    /\ plIdx = 0
    /\ plTrace = <<>>
    /\ plChunk = <<>>
    /\ plResult = [out |-> <<>>, err |-> FALSE]

InitPipeline ==
    GenericsIdle /\ PipelineInit /\ TypesIdle /\ LabelsIdle /\ DeclsIdle
    /\ ExprIdle

NextPipeline ==
    \/ inMemTranspile_Parse
    \/ inMemTranspile_Negotiate
    \/ inMemTranspile_Generate

SpecPipeline == InitPipeline /\ [][NextPipeline]_vars

\* C6: Generate is called only after NegotiateTypes has been called on, and
\* has succeeded for, every statement; a failing NegotiateTypes is the last
\* call of the run and leaves the output empty; no call is made twice and
\* each kind of call is made in parse order; a run that ends without error
\* has negotiated and then generated every statement, and returns their
\* renderings in parse order.
C6_PhaseOrdered ==
    LET n == Len(plStmts)
        m == Len(plTrace)
        IsGen(k) == plTrace[k][1] = "Generate"
        IsNeg(k) == plTrace[k][1] = "NegotiateTypes"
    IN
    /\ \A k \in 1..m : IsGen(k) =>
           \A st \in 1..n :
               /\ plStmts[st].negotiates
               /\ \E j \in 1..(k - 1) : plTrace[j] = <<"NegotiateTypes", st>>
    /\ \A k \in 1..m : (IsNeg(k) /\ ~plStmts[plTrace[k][2]].negotiates) =>
           /\ k = m
           /\ plChunk = <<>>
           /\ plPc = "done" /\ plResult = [out |-> <<>>, err |-> TRUE]
    /\ \A j, k \in 1..m : (j < k /\ plTrace[j][1] = plTrace[k][1]) =>
           plTrace[j][2] < plTrace[k][2]
    /\ Len(plChunk) = Cardinality({k \in 1..m : IsGen(k)})
    /\ (plPc = "done" /\ ~plResult.err) =>
           /\ plTrace = [k \in 1..(2 * n) |->
                            IF k <= n THEN <<"NegotiateTypes", k>>
                            ELSE <<"Generate", k - n>>]
           /\ plResult.out = [k \in 1..n |-> <<"text", k>>]

\* C6's case: a run over several statements has ended without error.
C6_RunGeneratedAll ==
    /\ plPc = "done"
    /\ ~plResult.err
    /\ Len(plStmts) >= 2
    /\ Len(plResult.out) = Len(plStmts)

(***************************************************************************)
(*                            TYPE ALGEBRA                                 *)
(* A Type value is a record: its Kind(), a name (SimpleType's type name,   *)
(* CustomType.Name, GenericParamType.Name, GenericType.Name), a size       *)
(* (ArrayType.Size; for a FuncType the number of Args), the keys of a      *)
(* StructType (Keys) and its component types in field order.  A CustomType *)
(* holds a pointer to its TypeDecl: here the name under which typeDecls    *)
(* holds the declaration's AliasedType; a name typeDecls does not hold is  *)
(* a nil Decl.                                                             *)
(***************************************************************************)

Type(kind, name, size, keys, subs) ==
    [kind |-> kind, name |-> name, size |-> size, keys |-> keys, subs |-> subs]

SimpleType(id)      == Type("KIND_SIMPLE", id, 0, <<>>, <<>>)
ArrayType(n, of)    == Type("KIND_ARRAY", "", n, <<>>, <<of>>)
SliceType(of)       == Type("KIND_SLICE", "", 0, <<>>, <<of>>)
MapType(by, of)     == Type("KIND_MAP", "", 0, <<>>, <<by, of>>)
FuncType(args, res) == Type("KIND_FUNC", "", Len(args), <<>>, args \o res)
ChanType(of)        == Type("KIND_CHAN", "", 0, <<>>, <<of>>)
PointerType(to)     == Type("KIND_POINTER", "", 0, <<>>, <<to>>)
TupleType(members)  == Type("KIND_TUPLE", "", 0, <<>>, members)
StructType(name, keys, members) == Type("KIND_STRUCT", name, 0, keys, members)
IfaceType(name)     == Type("KIND_INTERFACE", name, 0, <<>>, <<>>)
CustomType(name)    == Type("KIND_CUSTOM", name, 0, <<>>, <<>>)
UnknownType         == Type("KIND_UNKNOWN", "_", 0, <<>>, <<>>)
\* concrete: <<>> for a nil Concrete, <<t>> for Concrete = t
GenericParamType(name, concrete) ==
    Type("KIND_GENERIC_PARAM", name, 0, <<>>, concrete)
GenericType(name, params) == Type("KIND_GENERIC_INST", name, 0, <<>>, params)

\* t.Kind()
Kind(t) == t.kind

\* FuncType.Args and FuncType.Results
FuncArgs(t) == SubSeq(t.subs, 1, t.size)
FuncResults(t) == SubSeq(t.subs, t.size + 1, Len(t.subs))

\* t.Known(), kind by kind.
RECURSIVE Known(_)
Known(t) ==
    CASE Kind(t) = "KIND_SIMPLE" -> TRUE
      [] Kind(t) = "KIND_ARRAY" -> Known(t.subs[1])
      [] Kind(t) = "KIND_SLICE" -> Known(t.subs[1])
      [] Kind(t) = "KIND_MAP" -> Known(t.subs[1]) /\ Known(t.subs[2])
      [] Kind(t) = "KIND_FUNC" ->
            /\ \A i \in 1..Len(FuncArgs(t)) : Known(FuncArgs(t)[i])
            /\ \A i \in 1..Len(FuncResults(t)) : Known(FuncResults(t)[i])
      [] Kind(t) = "KIND_CHAN" -> Known(t.subs[1])
      [] Kind(t) = "KIND_POINTER" -> Known(t.subs[1])
      [] Kind(t) = "KIND_TUPLE" -> \A i \in 1..Len(t.subs) : Known(t.subs[i])
      [] Kind(t) = "KIND_STRUCT" -> \A i \in 1..Len(t.subs) : Known(t.subs[i])
      [] Kind(t) = "KIND_INTERFACE" -> TRUE
      [] Kind(t) = "KIND_CUSTOM" -> TRUE
      [] Kind(t) = "KIND_UNKNOWN" -> FALSE
      [] Kind(t) = "KIND_GENERIC_PARAM" ->
            IF t.subs = <<>> THEN FALSE ELSE Known(t.subs[1])
      [] Kind(t) = "KIND_GENERIC_INST" ->
            \A i \in 1..Len(t.subs) : Known(t.subs[i])

\* The types t.MapSubtypes(callback) hands to mapSubtype, in call order.
MapSubtypesResultsFirst(t) ==
    CASE Kind(t) \in {"KIND_SIMPLE", "KIND_INTERFACE", "KIND_UNKNOWN",
                      "KIND_GENERIC_PARAM"} -> <<>>
      [] Kind(t) = "KIND_CUSTOM" ->
            IF t.name \in DOMAIN typeDecls THEN <<typeDecls[t.name]>>
            ELSE <<>>
      [] Kind(t) = "KIND_FUNC" -> FuncResults(t) \o FuncArgs(t)
      [] OTHER -> t.subs
MapSubtypes(t) ==
    CASE Kind(t) \in {"KIND_SIMPLE", "KIND_INTERFACE", "KIND_UNKNOWN",
                      "KIND_GENERIC_PARAM"} -> <<>>
      [] Kind(t) = "KIND_CUSTOM" ->
            IF t.name \in DOMAIN typeDecls THEN <<typeDecls[t.name]>>
            ELSE <<>>
      [] Kind(t) = "KIND_FUNC" -> FuncArgs(t) \o FuncResults(t)
      [] OTHER -> t.subs

\* The most callback invocations one traversal is followed for.
MaxVisits == 8
\* The largest ArrayType.Size among the types examined.
MaxArraySize == 2

\* The type declarations of the unit; CustomType("C") has a nil Decl.
DeclNames == {"A", "B"}

LeafTypes ==
    {SimpleType("int"), SimpleType("string"), SimpleType("bool"),
     UnknownType, CustomType("A"), CustomType("B"), CustomType("C"),
     IfaceType("I"), GenericParamType("T", <<>>)}

\* The component types composite types are built from.
PartTypes == {SimpleType("int"), UnknownType, CustomType("A")}

\* What a type declaration may alias: plain types, other aliases (chains and
\* cycles), and a struct that points to its own named type.
AliasTargets ==
    {SimpleType("int"), UnknownType, CustomType("A"), CustomType("B"),
     SliceType(UnknownType), PointerType(CustomType("B")),
     StructType("A", <<"next">>, <<PointerType(CustomType("A"))>>)}

\* The Type values examined.
TypeUniverse ==
    LeafTypes
    \cup {SliceType(t) : t \in LeafTypes}
    \cup {ArrayType(n, t) : n \in 0..MaxArraySize, t \in PartTypes}
    \cup {ChanType(t) : t \in PartTypes}
    \cup {PointerType(t) : t \in LeafTypes}
    \cup {GenericParamType("T", <<t>>) : t \in PartTypes \cup {SliceType(UnknownType)}}
    \cup {MapType(by, of) : by \in PartTypes, of \in PartTypes}
    \cup {FuncType(a, r) : a \in SeqsUpTo(PartTypes, 1), r \in SeqsUpTo(PartTypes, 1)}
    \cup {TupleType(m) : m \in [1..2 -> PartTypes]}
    \cup {StructType("S", <<"x", "y">>, m) : m \in [1..2 -> PartTypes]}
    \cup {GenericType("G", ps) : ps \in SeqsUpTo(PartTypes, 2)}
    \cup {SliceType(SliceType(UnknownType)),
          ArrayType(2, ArrayType(1, SimpleType("string"))),
          MapType(SimpleType("string"), SliceType(CustomType("B"))),
          PointerType(StructType("S", <<"x">>, <<CustomType("B")>>)),
          FuncType(<<SimpleType("int"), CustomType("B")>>,
                   <<SimpleType("bool"), SliceType(SimpleType("int"))>>)}

\* mapSubtype(tyRoot, callback) is called: the traversal starts.
mapSubtype_Start ==
    /\ ~walk.active
    /\ walk' = [active |-> TRUE, visited |-> <<>>,
                pending |-> << [type |-> tyRoot, parent |-> 0] >>]
    /\ UNCHANGED <<typeDecls, tyRoot, rootCall, zeroCall>>
    /\ UNCHANGED <<genericsVars, pipelineVars, labelVars, declVars, exprVars>>

\* mapSubtype(t, callback) for the next type in call order: callback(t),
\* and when it answers true, t.MapSubtypes(callback), whose own calls of
\* mapSubtype come before the calls still pending.  visited records each
\* callback invocation, its answer and the invocation it descends from, up
\* to MaxVisits of them: the traversal goes on when the record is full.
mapSubtype ==
    /\ walk.active
    /\ walk.pending # <<>>
    /\ LET e == Head(walk.pending)
           me == Len(walk.visited) + 1
           children == MapSubtypes(e.type)
       IN \E goOn \in BOOLEAN :
           walk' = [walk EXCEPT
               !.visited =
                   IF Len(@) < MaxVisits
                   THEN Append(@, [type |-> e.type, goOn |-> goOn,
                                   parent |-> e.parent])
                   ELSE @,
               !.pending =
                   (IF goOn
                    THEN [i \in 1..Len(children) |->
                             [type |-> children[i], parent |-> me]]
                    ELSE <<>>) \o Tail(@)]
    /\ UNCHANGED <<typeDecls, tyRoot, rootCall, zeroCall>>
    /\ UNCHANGED <<genericsVars, pipelineVars, labelVars, declVars, exprVars>>

\* t.RootType() is called on tyRoot, a CustomType: current := t.Decl.AliasedType
\* (a nil Decl is a nil dereference).
CustomType_RootType_Call ==
    /\ rootCall.pc = "idle"
    /\ Kind(tyRoot) = "KIND_CUSTOM"
    /\ IF tyRoot.name \in DOMAIN typeDecls
       THEN rootCall' = [pc |-> "loop", current |-> typeDecls[tyRoot.name]]
       ELSE rootCall' = [rootCall EXCEPT !.pc = "panic"]
    /\ UNCHANGED <<typeDecls, tyRoot, walk, zeroCall>>
    /\ UNCHANGED <<genericsVars, pipelineVars, labelVars, declVars, exprVars>>

\* for current.Kind() == KIND_CUSTOM { current = ...Decl.AliasedType }
\* return current
CustomType_RootType_Loop ==
    /\ rootCall.pc = "loop"
    /\ IF Kind(rootCall.current) = "KIND_CUSTOM"
       THEN IF rootCall.current.name \in DOMAIN typeDecls
            THEN rootCall' = [rootCall EXCEPT
                                 !.current = typeDecls[rootCall.current.name]]
            ELSE rootCall' = [rootCall EXCEPT !.pc = "panic"]
       ELSE rootCall' = [rootCall EXCEPT !.pc = "return"]
    /\ UNCHANGED <<typeDecls, tyRoot, walk, zeroCall>>
    /\ UNCHANGED <<genericsVars, pipelineVars, labelVars, declVars, exprVars>>

\* The declaration tables examined: every choice of aliased types in which
\* no declaration aliases itself directly (the cycles are the 2-element ones).
DeclTables ==
    {d \in [DeclNames -> AliasTargets] : \A n \in DeclNames : d[n] # CustomType(n)}

TypesInit ==
    /\ typeDecls \in DeclTables
    /\ tyRoot \in TypeUniverse
    /\ walk = [active |-> FALSE, visited |-> <<>>, pending |-> <<>>]
    /\ rootCall = [pc |-> "idle", current |-> tyRoot]
    /\ zeroCall = [pc |-> "idle", text |-> ""]

InitTypes ==
    GenericsIdle /\ PipelineIdle /\ TypesInit /\ LabelsIdle /\ DeclsIdle
    /\ ExprIdle

NextTypes ==
    \/ mapSubtype_Start
    \/ mapSubtype
    \/ CustomType_RootType_Call
    \/ CustomType_RootType_Loop

SpecTypes == InitTypes /\ [][NextTypes]_vars

\* A running RootType loop is not abandoned: the loop takes its next step.
NextRootType ==
    \/ CustomType_RootType_Call
    \/ CustomType_RootType_Loop

SpecRootFair ==
    InitTypes /\ [][NextRootType]_vars /\ WF_vars(CustomType_RootType_Loop)

\* The traversal of tyRoot has ended, all of it is on record and the callback
\* answered true for every type: visited lists tyRoot and then every subtype
\* reachable from it.
FullWalkDone ==
    /\ walk.active
    /\ walk.pending = <<>>
    /\ Len(walk.visited) < MaxVisits
    /\ \A i \in 1..Len(walk.visited) : walk.visited[i].goOn

\* C7: UnknownType is never known, and a type that has subtypes is known
\* exactly when every subtype reachable from it (every type a traversal that
\* is never cut short visits below it) is known.
C7_KnownIffSubtypesKnown ==
    /\ Kind(tyRoot) = "KIND_UNKNOWN" => ~Known(tyRoot)
    /\ (FullWalkDone /\ Len(walk.visited) > 1) =>
           (Known(tyRoot) <=>
                \A i \in 2..Len(walk.visited) : Known(walk.visited[i].type))

\* C8: alias resolution terminates on every chain of declarations, a
\* 2-element alias cycle included: a RootType call that has entered its loop
\* leaves it.
C8_RootTypeTerminates ==
    (rootCall.pc = "loop") ~> (rootCall.pc # "loop")

\* A running traversal is not abandoned: its next call of mapSubtype is made.
NextWalk ==
    \/ mapSubtype_Start
    \/ mapSubtype

SpecWalkFair == InitTypes /\ [][NextWalk]_vars /\ WF_vars(mapSubtype)

\* The component types of t in the order of their declaration: the key of a
\* map before its value, the arguments of a function before its results,
\* the members of a struct in Keys order, the aliased type of a declared
\* alias.
DeclaredChildren(t) ==
    CASE Kind(t) = "KIND_MAP" -> <<t.subs[1], t.subs[2]>>
      [] Kind(t) = "KIND_FUNC" -> FuncArgs(t) \o FuncResults(t)
      [] Kind(t) = "KIND_STRUCT" -> [i \in 1..Len(t.keys) |-> t.subs[i]]
      [] Kind(t) = "KIND_CUSTOM" /\ t.name \in DOMAIN typeDecls ->
            <<typeDecls[t.name]>>
      [] Kind(t) \in {"KIND_ARRAY", "KIND_SLICE", "KIND_CHAN", "KIND_POINTER",
                      "KIND_TUPLE", "KIND_GENERIC_INST"} -> t.subs
      [] OTHER -> <<>>

\* C15: a traversal visits the type it was started on first; every other
\* visit comes after the visit of its parent, for which the callback
\* answered true; the visits made through one type are of its component
\* types in declaration order, and are all of them once the traversal has
\* ended and the callback answered true for that type.
C15_SelfFirstThenChildrenInOrder ==
    LET v == walk.visited
        n == Len(v)
        Through(i) == {j \in 1..n : v[j].parent = i}
        Rank(i, j) == Cardinality({k \in Through(i) : k <= j})
    IN
    /\ n >= 1 => v[1].type = tyRoot /\ v[1].parent = 0
    /\ \A j \in 2..n : v[j].parent \in 1..(j - 1) /\ v[v[j].parent].goOn
    /\ \A i \in 1..n :
           LET kids == DeclaredChildren(v[i].type) IN
           /\ \A j \in Through(i) :
                  /\ Rank(i, j) <= Len(kids)
                  /\ v[j].type = kids[Rank(i, j)]
           /\ (walk.pending = <<>> /\ n < MaxVisits) =>
                  Cardinality(Through(i)) = (IF v[i].goOn THEN Len(kids) ELSE 0)

\* C15's case: the traversal of a function type of two arguments and two
\* results has ended, the callback having refused one type that has
\* component types and accepted another.
C15_FuncWalkedWithRefusal ==
    /\ walk.active
    /\ walk.pending = <<>>
    /\ Kind(tyRoot) = "KIND_FUNC"
    /\ Len(tyRoot.subs) = 4
    /\ Len(walk.visited) = 6
    /\ \E i \in 1..Len(walk.visited) :
           /\ ~walk.visited[i].goOn
           /\ DeclaredChildren(walk.visited[i].type) # <<>>

\* C17: a traversal that was started ends, whatever the callback answers
\* and whatever the declarations are.
C17_TraversalTerminates ==
    walk.active ~> (walk.active /\ walk.pending = <<>>)

(***************************************************************************)
(*                         CodeBlock.AddLabel                              *)
(***************************************************************************)

\* The most AddLabel calls made on one CodeBlock.
MaxLabelCalls == 4
\* How many distinct LabelStmt objects carry one name.
MaxLabelsPerName == 2

LabelNames == {"outer", "inner"}

\* The LabelStmt objects: several distinct ones may have one name.
LabelStmts == [id : 1..MaxLabelsPerName, name : LabelNames]

\* l.Name()
LabelStmt_Name(l) == l.name

\* cb.AddLabel(l): the block's Labels afterwards and the error returned.
AddLabelOverwriting(labels, l) ==
    [Labels |-> [n \in DOMAIN labels \cup {LabelStmt_Name(l)} |->
                    IF n = LabelStmt_Name(l) THEN l ELSE labels[n]],
     err |-> LabelStmt_Name(l) \in DOMAIN labels]
AddLabel(labels, l) ==
    IF LabelStmt_Name(l) \in DOMAIN labels
    THEN [Labels |-> labels, err |-> TRUE]
    ELSE [Labels |-> [n \in DOMAIN labels \cup {LabelStmt_Name(l)} |->
                         IF n = LabelStmt_Name(l) THEN l ELSE labels[n]],
          err |-> FALSE]

CodeBlock_AddLabel ==
    /\ Len(labelCalls) < MaxLabelCalls
    /\ \E l \in LabelStmts :
           LET r == AddLabel(Labels, l) IN
           /\ Labels' = r.Labels
           /\ labelCalls' = Append(labelCalls, [label |-> l, err |-> r.err])
    /\ UNCHANGED <<genericsVars, pipelineVars, typeVars, declVars, exprVars>>

LabelsInit ==
    /\ Labels = <<>>
    /\ labelCalls = <<>>

InitLabels ==
    GenericsIdle /\ PipelineIdle /\ TypesIdle /\ LabelsInit /\ DeclsIdle
    /\ ExprIdle

NextLabels == CodeBlock_AddLabel

SpecLabels == InitLabels /\ [][NextLabels]_vars

\* C9: after any sequence of AddLabel calls, a call returned an error exactly
\* when an earlier call had registered its name, the names in the block's
\* map are the names registered, and each maps to the label of the first
\* call made under it (so a call that returned an error changed nothing).
C9_FirstLabelWins ==
    LET n == Len(labelCalls)
        NameOf(i) == labelCalls[i].label.name
        Earlier(i) == {j \in 1..(i - 1) : NameOf(j) = NameOf(i)}
    IN
    /\ \A i \in 1..n : labelCalls[i].err <=> Earlier(i) # {}
    /\ DOMAIN Labels = {NameOf(i) : i \in 1..n}
    /\ \A i \in 1..n : Earlier(i) = {} => Labels[NameOf(i)] = labelCalls[i].label

\* C9's case: a second, different label was registered under a name already
\* present, and was refused.
C9_DuplicateRefused ==
    \E i \in 1..Len(labelCalls) :
        /\ labelCalls[i].err
        /\ Labels[labelCalls[i].label.name] # labelCalls[i].label

(***************************************************************************)
(*                        TopLevelStmt.Decls                               *)
(* A statement is a record: the dynamic type of s.Stmt (kind), the name it *)
(* declares when it declares one (Decl.Name(), Name(), Iface.name), its    *)
(* DeclChain when it is a VarStmt, and, for a statement of another type    *)
(* that implements declStmt, what its own Decls() returns.                 *)
(***************************************************************************)

\* Longest DeclChain of a VarStmt.
MaxVarDecls == 2
\* Most variables, and most initializers, of one VarDecl.
MaxVarsPerDecl == 2

VarNames == {"a", "b"}

\* A VarDecl: the names of its Vars and its Inits.
VarDecls ==
    [Vars : SeqsUpTo(VarNames, MaxVarsPerDecl) \ {<<>>},
     Inits : {[i \in 1..k |-> "init"] : k \in 0..MaxVarsPerDecl}]

\* The statement types that declare exactly one name.
OneNameKinds ==
    {"StructStmt", "TypeDecl", "IfaceStmt", "GenericFunc", "GenericStruct"}

\* The statement types Decls lists as declaring nothing.
NoNameKinds ==
    {"ImportStmt", "AssignStmt", "SendStmt", "SwitchStmt", "ExprStmt",
     "IfStmt", "ForStmt", "ForRangeStmt", "BranchStmt", "LabelStmt"}

\* Statement types Decls does not list: those with a Decls() of their own
\* (declStmt) and those without.
OtherKinds == {"declStmt", "PassStmt", "ReturnStmt", "WhenStmt"}

Stmt(kind, name, chain, own) ==
    [kind |-> kind, name |-> name, Vars |-> chain, ownDecls |-> own]

TopStmts ==
    {Stmt("VarStmt", "", chain, <<>>) : chain \in SeqsUpTo(VarDecls, MaxVarDecls)}
    \cup {Stmt(k, n, <<>>, <<>>) : k \in OneNameKinds, n \in VarNames}
    \cup {Stmt(k, "", <<>>, <<>>) : k \in NoNameKinds}
    \cup {Stmt("declStmt", "", <<>>, own) : own \in SeqsUpTo(VarNames, 1)}
    \cup {Stmt(k, "", <<>>, <<>>) : k \in OtherKinds \ {"declStmt"}}

\* VarDecl.eachPair: the (v, init) pairs the callback is called with, in
\* order; a variable past the last initializer gets a nil init.
VarDecl_eachPairOfInits(vd) ==
    [i \in 1..(IF Len(vd.Inits) < Len(vd.Vars) THEN Len(vd.Inits)
               ELSE Len(vd.Vars)) |->
        [v |-> vd.Vars[i], init |-> vd.Inits[i]]]
VarDecl_eachPair(vd) ==
    [i \in 1..Len(vd.Vars) |->
        [v |-> vd.Vars[i],
         init |-> IF i <= Len(vd.Inits) THEN vd.Inits[i] ELSE Nil]]

\* DeclChain.eachPair: VarDecl.eachPair for each VarDecl, in order.
RECURSIVE DeclChain_eachPair(_)
DeclChain_eachPair(ad) ==
    IF ad = <<>> THEN <<>>
    ELSE VarDecl_eachPair(Head(ad)) \o DeclChain_eachPair(Tail(ad))

\* s.Decls(): the type switch on s.Stmt.
DeclsDefaultEmpty(s) ==
    CASE s.kind = "VarStmt" ->
            LET pairs == DeclChain_eachPair(s.Vars) IN
            [panic |-> FALSE,
             result |-> [i \in 1..Len(pairs) |-> pairs[i].v]]
      [] s.kind \in OneNameKinds -> [panic |-> FALSE, result |-> <<s.name>>]
      [] s.kind = "declStmt" -> [panic |-> FALSE, result |-> s.ownDecls]
      [] OTHER -> [panic |-> FALSE, result |-> <<>>]
Decls(s) ==
    CASE s.kind = "VarStmt" ->
            LET pairs == DeclChain_eachPair(s.Vars) IN
            [panic |-> FALSE,
             result |-> [i \in 1..Len(pairs) |-> pairs[i].v]]
      [] s.kind \in OneNameKinds -> [panic |-> FALSE, result |-> <<s.name>>]
      [] s.kind \in NoNameKinds -> [panic |-> FALSE, result |-> <<>>]
      [] s.kind = "declStmt" -> [panic |-> FALSE, result |-> s.ownDecls]
      [] OTHER -> [panic |-> TRUE, result |-> <<>>]

TopLevelStmt_Decls ==
    /\ ~declsResult.called
    /\ declsResult' = [called |-> TRUE, panic |-> Decls(topStmt).panic,
                       result |-> Decls(topStmt).result]
    /\ UNCHANGED <<topStmt, unboundTypes, unboundIdents, deps, depsResult>>
    /\ UNCHANGED <<genericsVars, pipelineVars, typeVars, labelVars, exprVars>>

DeclsInit ==
    /\ topStmt \in TopStmts
    /\ declsResult = [called |-> FALSE, panic |-> FALSE, result |-> <<>>]
    /\ DepsIdle

InitDecls ==
    GenericsIdle /\ PipelineIdle /\ TypesIdle /\ LabelsIdle /\ DeclsInit
    /\ ExprIdle

NextDecls == TopLevelStmt_Decls

SpecDecls == InitDecls /\ [][NextDecls]_vars

\* The names of all variables of a chain of declarations, in declaration
\* order, whether or not a variable has an initializer.
RECURSIVE NamesBound(_)
NamesBound(chain) ==
    IF chain = <<>> THEN <<>>
    ELSE Head(chain).Vars \o NamesBound(Tail(chain))

\* C10: Decls returns, for a variable statement, the name of every variable
\* of every declaration of its chain in declaration order; exactly the one
\* declared name for a struct, type, interface, generic-function or
\* generic-struct declaration; and no name for import, assignment, send,
\* switch, expression, if, for, for-range, branch and label statements.
C10_DeclsNamesIntroduced ==
    declsResult.called =>
        /\ topStmt.kind = "VarStmt" =>
               /\ ~declsResult.panic
               /\ declsResult.result = NamesBound(topStmt.Vars)
        /\ topStmt.kind \in OneNameKinds =>
               /\ ~declsResult.panic
               /\ declsResult.result = <<topStmt.name>>
        /\ topStmt.kind \in NoNameKinds =>
               /\ ~declsResult.panic
               /\ declsResult.result = <<>>

\* C10's case: Decls has run on a variable statement with a chain of two
\* declarations one of which has more variables than initializers.
C10_ChainWithUninitialized ==
    /\ declsResult.called
    /\ topStmt.kind = "VarStmt"
    /\ Len(topStmt.Vars) = 2
    /\ \E d \in 1..2 : Len(topStmt.Vars[d].Inits) < Len(topStmt.Vars[d].Vars)
    /\ Len(declsResult.result) >= 3

(***************************************************************************)
(*                  TopLevelStmt.loadDeps and Deps                         *)
(* unboundTypes and unboundIdents are maps keyed by name; loadDeps and     *)
(* Deps use their keys only.  A range over a map yields its keys in an     *)
(* order the language leaves open.                                         *)
(***************************************************************************)

\* The names a statement may refer to without binding them: as a type, as
\* an identifier, or ("x") as both.
FreeTypeNames == {"T", "x"}
FreeIdentNames == {"x", "y"}

\* The orders in which a range over a map with the keys S may yield them.
Orderings(S) ==
    {o \in [1..Cardinality(S) -> S] :
        \A i, j \in 1..Cardinality(S) : i # j => o[i] # o[j]}

\* s.loadDeps(): the values s.deps may hold afterwards.
loadDepsAppending(types, idents) ==
    {Slice(a \o b) : a \in Orderings(types), b \in Orderings(idents)}
loadDeps(types, idents) ==
    LET uniqMap == types \cup idents
    IN {Slice(o) : o \in Orderings(uniqMap)}

\* s.Deps(): return s.deps.
Deps(s) == [panic |-> FALSE, result |-> deps]

TopLevelStmt_loadDeps ==
    /\ deps' \in loadDeps(unboundTypes, unboundIdents)
    /\ UNCHANGED <<topStmt, declsResult, unboundTypes, unboundIdents,
                   depsResult>>
    /\ UNCHANGED <<genericsVars, pipelineVars, typeVars, labelVars, exprVars>>

TopLevelStmt_Deps ==
    /\ depsResult' = [called |-> TRUE, panic |-> Deps(topStmt).panic,
                      result |-> Deps(topStmt).result]
    /\ UNCHANGED <<topStmt, declsResult, unboundTypes, unboundIdents, deps>>
    /\ UNCHANGED <<genericsVars, pipelineVars, typeVars, labelVars, exprVars>>

\* The statements loadDeps and Deps are examined on: every statement type,
\* a variable statement with at most one declaration.
DepStmts == {s \in TopStmts : Len(s.Vars) <= 1}

TopLevelInit ==
    /\ topStmt \in DepStmts
    /\ declsResult = [called |-> FALSE, panic |-> FALSE, result |-> <<>>]
    /\ unboundTypes \in SUBSET FreeTypeNames
    /\ unboundIdents \in SUBSET FreeIdentNames
    /\ deps = NilSlice
    /\ depsResult = [called |-> FALSE, panic |-> FALSE, result |-> NilSlice]

InitTopLevel ==
    GenericsIdle /\ PipelineIdle /\ TypesIdle /\ LabelsIdle /\ TopLevelInit
    /\ ExprIdle

NextTopLevel ==
    \/ TopLevelStmt_loadDeps
    \/ TopLevelStmt_Deps
    \/ TopLevelStmt_Decls

SpecTopLevel == InitTopLevel /\ [][NextTopLevel]_vars

\* C11: a Deps() call made after loadDeps has run returns every free type
\* name and every free identifier name of the statement exactly once, a name
\* that is both included, and no other name; and a Deps() call leaves the
\* statement, its unbound maps and its deps as they were.
C11_DepsIsUnionOfUnbound ==
    /\ [](depsResult.called /\ ~depsResult.result.isNil =>
            LET r == depsResult.result.elems IN
            /\ {r[i] : i \in 1..Len(r)} = unboundTypes \cup unboundIdents
            /\ \A i, j \in 1..Len(r) : i # j => r[i] # r[j])
    /\ [][depsResult' # depsResult =>
             UNCHANGED <<topStmt, unboundTypes, unboundIdents, deps>>]_vars

\* C11's case: Deps() has returned the three names of a statement one of
\* whose names is both an unbound type and an unbound identifier.
C11_SharedNameListedOnce ==
    /\ depsResult.called
    /\ unboundTypes \cap unboundIdents # {}
    /\ Len(depsResult.result.elems) = 3

\* The statement types the type switch of Decls names.
ListedKinds == {"VarStmt"} \cup OneNameKinds \cup NoNameKinds

\* C12: a statement type outside the listed ones makes Decls and Deps
\* panic, and a listed one makes neither panic.
C12_UnlistedShapePanics ==
    /\ declsResult.called =>
           (declsResult.panic <=> topStmt.kind \notin ListedKinds)
    /\ depsResult.called =>
           (depsResult.panic <=> topStmt.kind \notin ListedKinds)

\* C12 as the code has it: Decls panics exactly for a statement type that
\* is not listed and has no Decls() of its own, for which it returns what
\* that Decls() returns; Deps returns s.deps and panics for no statement.
C12_OnlyDeclsPanics ==
    /\ declsResult.called =>
           /\ declsResult.panic <=>
                  topStmt.kind \notin ListedKinds \cup {"declStmt"}
           /\ topStmt.kind = "declStmt" =>
                  declsResult.result = topStmt.ownDecls
           /\ declsResult.panic => declsResult.result = <<>>
    /\ depsResult.called => ~depsResult.panic

\* C12's case: Decls has panicked on a statement type it does not list, and
\* Deps has returned for the same statement.
C12_PanicInDeclsOnly ==
    /\ declsResult.called
    /\ declsResult.panic
    /\ depsResult.called
    /\ ~depsResult.panic

(***************************************************************************)
(*                     Type.String and Type.ZeroValue                      *)
(* Both are followed to their end in one step.  A call ends in one of      *)
(* three ways: it returns a text, it panics, or (an alias cycle under      *)
(* RootType) it never ends.                                                *)
(***************************************************************************)

\* fmt.Sprintf("%d", n)
Itoa(n) == ToString(n)

\* t.String(), kind by kind.  A ChanType here has Dir = CHAN_DIR_BI, a
\* CustomType a nil Package, an IfaceType no methods.
RECURSIVE String(_)
RECURSIVE StringsJoined(_, _, _)
\* The loop `for c, a := range ts { write a.String(); if c+1 < len(ts)
\* { write sep } }` from its c-th element (1-based) on.
StringsJoined(ts, c, sep) ==
    IF c > Len(ts) THEN ""
    ELSE String(ts[c]) \o (IF c < Len(ts) THEN sep ELSE "")
         \o StringsJoined(ts, c + 1, sep)

\* FuncType.Header()
FuncType_Header(t) ==
    "(" \o StringsJoined(FuncArgs(t), 1, ", ") \o ")"
    \o (CASE Len(FuncResults(t)) = 0 -> ""
          [] Len(FuncResults(t)) = 1 -> " " \o String(FuncResults(t)[1])
          [] OTHER -> " (" \o StringsJoined(FuncResults(t), 1, ", ") \o ")")

\* The loop of StructType.String() over t.Keys from the i-th key on: every
\* key here is a plain member.
RECURSIVE StructType_Fields(_, _)
StructType_Fields(t, i) ==
    IF i > Len(t.keys) THEN ""
    ELSE t.keys[i] \o " " \o String(t.subs[i])
         \o (IF i < Len(t.subs) THEN "; " ELSE "")
         \o StructType_Fields(t, i + 1)

String(t) ==
    CASE Kind(t) = "KIND_SIMPLE" -> t.name
      [] Kind(t) = "KIND_ARRAY" -> "[" \o Itoa(t.size) \o "]" \o String(t.subs[1])
      [] Kind(t) = "KIND_SLICE" -> "[]" \o String(t.subs[1])
      [] Kind(t) = "KIND_MAP" ->
            "map[" \o String(t.subs[1]) \o "]" \o String(t.subs[2])
      [] Kind(t) = "KIND_FUNC" -> "func" \o FuncType_Header(t)
      [] Kind(t) = "KIND_CHAN" -> "chan " \o String(t.subs[1])
      [] Kind(t) = "KIND_POINTER" -> "*" \o String(t.subs[1])
      [] Kind(t) = "KIND_TUPLE" -> "(" \o StringsJoined(t.subs, 1, ", ") \o ")"
      [] Kind(t) = "KIND_STRUCT" -> "struct {" \o StructType_Fields(t, 1) \o "}"
      [] Kind(t) = "KIND_INTERFACE" -> "interface{}"
      [] Kind(t) = "KIND_CUSTOM" -> t.name
      [] Kind(t) = "KIND_UNKNOWN" -> "_"
      [] Kind(t) = "KIND_GENERIC_PARAM" ->
            IF t.subs = <<>> THEN t.name ELSE String(t.subs[1])
      [] Kind(t) = "KIND_GENERIC_INST" ->
            t.name \o "[" \o StringsJoined(t.subs, 1, ", ") \o "]"

\* How a call ended.
Returns(text) == [pc |-> "return", text |-> text]
Panics == [pc |-> "panic", text |-> ""]
NeverReturns == [pc |-> "loop", text |-> ""]

\* The loop of CustomType.RootType() from `current` on.  A chain of aliases
\* that has taken more steps than there are declarations has come back to a
\* declaration it left and goes round for ever; left counts the steps still
\* open before that is known.
RECURSIVE RootType_Loop(_, _)
RootType_Loop(current, left) ==
    IF Kind(current) # "KIND_CUSTOM" THEN [pc |-> "return", type |-> current]
    ELSE IF current.name \notin DOMAIN typeDecls
         THEN [pc |-> "panic", type |-> current]
    ELSE IF left = 0 THEN [pc |-> "loop", type |-> current]
    ELSE RootType_Loop(typeDecls[current.name], left - 1)

\* t.RootType() of a CustomType.
RootType(t) ==
    IF t.name \notin DOMAIN typeDecls THEN [pc |-> "panic", type |-> t]
    ELSE RootType_Loop(typeDecls[t.name], Cardinality(DOMAIN typeDecls))

\* SimpleType.ZeroValue()
SimpleType_ZeroValueDefaultNil(t) ==
    CASE t.name = "string" -> "\"\""
      [] t.name = "bool" -> "false"
      [] OTHER -> "nil"
SimpleType_ZeroValue(t) ==
    CASE t.name = "string" -> "\"\""
      [] t.name = "bool" -> "false"
      [] OTHER -> "0"

\* The loop of ArrayType.ZeroValue() from index i (0-based) on, b holding
\* what was written so far; elem is what t.Of.ZeroValue() does.
RECURSIVE ArrayType_ZeroValue_Loop(_, _, _, _)
ArrayType_ZeroValue_Loop(b, i, size, elem) ==
    IF i < size
    THEN IF elem.pc # "return" THEN elem
         ELSE ArrayType_ZeroValue_Loop(
                  b \o elem.text \o (IF i + 1 < size THEN ", " ELSE ""),
                  i + 1, size, elem)
    ELSE Returns(b \o "}")

\* StructType.ZeroValue(): fmt.Sprintf("%s{}", t)
StructType_ZeroValueByName(t) == Returns(t.name \o "{}")
StructType_ZeroValue(t) == Returns(String(t) \o "{}")

\* t.ZeroValue(), kind by kind.  A GenericType here is as the parser leaves
\* it: its Struct is nil.
RECURSIVE ZeroValue(_)
ZeroValue(t) ==
    CASE Kind(t) = "KIND_SIMPLE" -> Returns(SimpleType_ZeroValue(t))
      [] Kind(t) = "KIND_ARRAY" ->
            ArrayType_ZeroValue_Loop(String(t) \o "{", 0, t.size,
                                     ZeroValue(t.subs[1]))
      [] Kind(t) \in {"KIND_SLICE", "KIND_MAP", "KIND_FUNC", "KIND_CHAN",
                      "KIND_POINTER", "KIND_INTERFACE", "KIND_UNKNOWN"} ->
            Returns("nil")
      [] Kind(t) = "KIND_TUPLE" -> Panics
      [] Kind(t) = "KIND_STRUCT" -> StructType_ZeroValue(t)
      [] Kind(t) = "KIND_CUSTOM" ->
            LET root == RootType(t) IN
            CASE root.pc = "return" -> ZeroValue(root.type)
              [] root.pc = "panic" -> Panics
              [] OTHER -> NeverReturns
      [] Kind(t) = "KIND_GENERIC_PARAM" ->
            IF t.subs = <<>> THEN Panics ELSE ZeroValue(t.subs[1])
      [] Kind(t) = "KIND_GENERIC_INST" -> Panics

\* tyRoot.ZeroValue() is called.
Type_ZeroValue ==
    /\ zeroCall.pc = "idle"
    /\ zeroCall' = ZeroValue(tyRoot)
    /\ UNCHANGED <<typeDecls, tyRoot, walk, rootCall>>
    /\ UNCHANGED <<genericsVars, pipelineVars, labelVars, declVars, exprVars>>

\* The types whose zero value is asked for: those of TypeUniverse, the other
\* simple types, and arrays and aliases of each kind.
ZeroTypes ==
    TypeUniverse
    \cup {SimpleType(id) : id \in {"float64", "uint8", "rune"}}
    \cup {ArrayType(n, t) : n \in 0..MaxArraySize,
              t \in {SimpleType("string"), SimpleType("bool"),
                     SliceType(SimpleType("int")), CustomType("B"),
                     CustomType("C"),
                     TupleType(<<SimpleType("int"), SimpleType("int")>>),
                     ArrayType(2, SimpleType("bool")),
                     StructType("S", <<"x">>, <<SimpleType("int")>>)}}
    \cup {StructType(n, <<>>, <<>>) : n \in {"S", "E"}}
    \cup {StructType("P", <<"x", "y", "z">>,
                     <<SimpleType("int"), CustomType("A"),
                       SliceType(SimpleType("string"))>>)}

\* What a declaration aliases where zero values are asked for.
ZeroAliasTargets ==
    AliasTargets
    \cup {SimpleType("string"), ArrayType(2, SimpleType("int")),
          TupleType(<<SimpleType("int"), SimpleType("int")>>)}

ZeroInit ==
    /\ typeDecls \in
           {d \in [DeclNames -> ZeroAliasTargets] :
               \A n \in DeclNames : d[n] # CustomType(n)}
    /\ tyRoot \in ZeroTypes
    /\ walk = [active |-> FALSE, visited |-> <<>>, pending |-> <<>>]
    /\ rootCall = [pc |-> "idle", current |-> tyRoot]
    /\ zeroCall = [pc |-> "idle", text |-> ""]

InitZero ==
    GenericsIdle /\ PipelineIdle /\ ZeroInit /\ LabelsIdle /\ DeclsIdle
    /\ ExprIdle

NextZero ==
    \/ Type_ZeroValue
    \/ CustomType_RootType_Call
    \/ CustomType_RootType_Loop

SpecZero == InitZero /\ [][NextZero]_vars

\* C13: ZeroValue gives "" for string, false for bool and 0 for every other
\* simple type; nil for slice, map, chan, func, pointer and interface types;
\* for an array of size N its type text and, in braces, N copies of the
\* element's zero value separated by ", " (nothing for N = 0); for an alias
\* what the zero value of its root type is; and a panic for a tuple.
C13_ZeroValuePerKind ==
    zeroCall.pc # "idle" =>
        /\ Kind(tyRoot) = "KIND_SIMPLE" =>
               zeroCall = Returns(IF tyRoot.name = "string" THEN "\"\""
                                  ELSE IF tyRoot.name = "bool" THEN "false"
                                  ELSE "0")
        /\ Kind(tyRoot) \in {"KIND_SLICE", "KIND_MAP", "KIND_CHAN",
                             "KIND_FUNC", "KIND_POINTER", "KIND_INTERFACE"} =>
               zeroCall = Returns("nil")
        /\ Kind(tyRoot) = "KIND_ARRAY" =>
               LET elem == ZeroValue(tyRoot.subs[1]) IN
               IF tyRoot.size = 0 \/ elem.pc = "return"
               THEN zeroCall =
                        Returns(String(tyRoot) \o "{"
                                \o JoinWith([i \in 1..tyRoot.size |-> elem.text],
                                            ", ")
                                \o "}")
               ELSE zeroCall = elem
        /\ Kind(tyRoot) = "KIND_CUSTOM" =>
               /\ rootCall.pc = "return" =>
                      zeroCall = ZeroValue(rootCall.current)
               /\ rootCall.pc = "panic" => zeroCall.pc = "panic"
               /\ zeroCall.pc = "loop" => rootCall.pc # "return"
        /\ Kind(tyRoot) = "KIND_TUPLE" => zeroCall.pc = "panic"

\* C13's case: the zero value of an array of two elements of an alias of an
\* alias of string has been returned.
C13_ArrayOfAliasedStrings ==
    /\ tyRoot = ArrayType(2, CustomType("B"))
    /\ typeDecls["B"] = CustomType("A")
    /\ zeroCall = Returns("[2]B{\"\", \"\"}")

MaxExprDepth == 2

BasicLit(token) == [node |-> "BasicLit", token |-> token, args |-> <<>>]
Ident(name) == [node |-> "Ident", token |-> name, args |-> <<>>]
BinaryOp(Left, op, Right) ==
    [node |-> "BinaryOp", token |-> op, args |-> <<Left, Right>>]
UnaryOp(op, Right) == [node |-> "UnaryOp", token |-> op, args |-> <<Right>>]

BinaryOps == {"+", "&&"}
UnaryOps == {"-"}
Operands == {BasicLit("1"), Ident("t")}

\* The expressions of the generator's test: 1+1, 1+(-1), 1 == 2, t == 2,
\* t == 2 && k == "bbb", true == false, x < 100.
TestExprs ==
    {BinaryOp(BasicLit("1"), "+", BasicLit("1")),
     BinaryOp(BasicLit("1"), "+", UnaryOp("-", BasicLit("1"))),
     BinaryOp(BasicLit("1"), "==", BasicLit("2")),
     BinaryOp(Ident("t"), "==", BasicLit("2")),
     BinaryOp(BinaryOp(Ident("t"), "==", BasicLit("2")), "&&",
              BinaryOp(Ident("k"), "==", BasicLit("\"bbb\""))),
     BinaryOp(BasicLit("true"), "==", BasicLit("false")),
     BinaryOp(Ident("x"), "<", BasicLit("100"))}

\* The expressions with operators nested at most d deep.
RECURSIVE ExprsOfDepth(_)
ExprsOfDepth(d) ==
    IF d = 0 THEN Operands
    ELSE LET S == ExprsOfDepth(d - 1) IN
         S \cup {UnaryOp(o, e) : o \in UnaryOps, e \in S}
           \cup {BinaryOp(l, o, r) : l \in S, o \in BinaryOps, r \in S}

Exprs == ExprsOfDepth(MaxExprDepth) \cup TestExprs

\* e.Generate(cc): the pieces written for e, in order.
RECURSIVE Expr_Generate(_)
BinaryOp_GenerateBare(e) ==
    Expr_Generate(e.args[1]) \o <<" " \o e.token \o " ">>
    \o Expr_Generate(e.args[2])
BinaryOp_Generate(e) ==
    <<"(">> \o Expr_Generate(e.args[1]) \o <<" " \o e.token \o " ">>
    \o Expr_Generate(e.args[2]) \o <<")">>

UnaryOp_Generate(e) ==
    <<"(", e.token>> \o Expr_Generate(e.args[1]) \o <<")">>

Expr_Generate(e) ==
    CASE e.node = "BinaryOp" -> BinaryOp_Generate(e)
      [] e.node = "UnaryOp" -> UnaryOp_Generate(e)
      [] OTHER -> <<e.token>>

\* The expression statement is generated.
ExprStmt_Generate ==
    /\ ~rendered.done
    /\ rendered' = [done |-> TRUE, pieces |-> Expr_Generate(expr)]
    /\ UNCHANGED expr
    /\ UNCHANGED <<genericsVars, pipelineVars, typeVars, labelVars, declVars>>

ExprInit ==
    /\ expr \in Exprs
    /\ rendered = [done |-> FALSE, pieces |-> <<>>]

InitExpr ==
    GenericsIdle /\ PipelineIdle /\ TypesIdle /\ LabelsIdle /\ DeclsIdle
    /\ ExprInit

NextExpr == ExprStmt_Generate

SpecExpr == InitExpr /\ [][NextExpr]_vars

\* The text written: the pieces one after the other.
TextOf(pieces) == JoinWith(pieces, "")

\* Reading a text written piece by piece back without any rule of
\* precedence: "(" opens an operator expression, an operator right after it
\* makes it a unary one, and ")" closes it.  Gives the expression read and
\* the pieces after it.
RECURSIVE ReadExpr(_)
ReadExpr(p) ==
    IF Head(p) # "("
    THEN [e |-> Head(p), rest |-> Tail(p)]
    ELSE IF p[2] \in UnaryOps
    THEN LET r == ReadExpr(Tail(Tail(p)))
         IN [e |-> <<p[2], r.e>>, rest |-> Tail(r.rest)]
    ELSE LET l == ReadExpr(Tail(p))
             r == ReadExpr(Tail(l.rest))
         IN [e |-> <<l.e, Head(l.rest), r.e>>, rest |-> Tail(r.rest)]

\* What ReadExpr reads when every operator expression of e has its own
\* pair of parentheses.
RECURSIVE Shape(_)
Shape(e) ==
    CASE e.node = "BinaryOp" ->
            <<Shape(e.args[1]), " " \o e.token \o " ", Shape(e.args[2])>>
      [] e.node = "UnaryOp" -> <<e.token, Shape(e.args[1])>>
      [] OTHER -> e.token

\* The operator expressions in e.
RECURSIVE Operators(_)
Operators(e) ==
    IF e.args = <<>> THEN 0
    ELSE IF Len(e.args) = 1 THEN 1 + Operators(e.args[1])
    ELSE 1 + Operators(e.args[1]) + Operators(e.args[2])

\* C16: the text generated for an expression has one pair of parentheses
\* for each binary and each unary operator expression in it, at every
\* depth and for every operator, so that read back without precedence it
\* is the expression; 1+1 gives (1 + 1), 1+(-1) gives (1 + (-1)) and
\* t == 2 && k == "bbb" gives ((t == 2) && (k == "bbb")).
C16_FullyParenthesized ==
    rendered.done =>
        LET p == rendered.pieces
            Count(c) == Cardinality({i \in 1..Len(p) : p[i] = c})
        IN
        /\ expr = BinaryOp(BasicLit("1"), "+", BasicLit("1")) =>
               TextOf(p) = "(1 + 1)"
        /\ expr = BinaryOp(BasicLit("1"), "+", UnaryOp("-", BasicLit("1"))) =>
               TextOf(p) = "(1 + (-1))"
        /\ expr = BinaryOp(BinaryOp(Ident("t"), "==", BasicLit("2")), "&&",
                           BinaryOp(Ident("k"), "==", BasicLit("\"bbb\""))) =>
               TextOf(p) = "((t == 2) && (k == \"bbb\"))"
        /\ Count("(") = Operators(expr)
        /\ Count(")") = Operators(expr)
        /\ ReadExpr(p) = [e |-> Shape(expr), rest |-> <<>>]

\* C16's case: an expression with three operators, a binary operator over
\* a binary operator and a negation, has been generated.
C16_NegationBesideBinary ==
    /\ rendered.done
    /\ expr.node = "BinaryOp"
    /\ \E i, j \in 1..2 :
           /\ expr.args[i].node = "BinaryOp"
           /\ expr.args[j].node = "UnaryOp"

=============================================================================
